---- MODULE Spec2Model ----
(***************************************************************************)
(* Billing / receivables UI (src/app.py): customers, invoices ("boletos"), *)
(* attachments, the installment scheduler and the balance aggregation.     *)
(* The remote backend (tables clientes / cobrancas, bucket boletos) is the *)
(* only durable state.  A page handler is one atomic submit, except where  *)
(* two sessions are interleaved: there the settlement page's read of the   *)
(* table and its write are separate steps.                                 *)
(***************************************************************************)
EXTENDS Integers, Sequences, FiniteSets, TLC

VARIABLES
    FERIADOS_BR,   \* module global: the holiday list (lines 37-43)
    plano, vencs,  \* scheduler inputs and the due dates computed from them
    clientes,      \* backend table "clientes", in backend order
    cobrancas,     \* backend table "cobrancas", in backend order
    bucket,        \* object store "boletos": the paths that hold a file
    agora,         \* datetime.utcnow(), one tick per submit
    ult,           \* what the last submit did and showed
    baixados,      \* history: ids the settlement flow has settled
    df_cobrancas, df_clientes,  \* the frames given to calcular_saldo_por_cliente
    df_saldo,      \* and the frame it returned
    carregados,    \* per session: the pending rows its settlement run has read
    laco_ts, laco_entrada, pc   \* ajustar_dia_util's loop: its date, its argument, its position

vars == <<FERIADOS_BR, plano, vencs, clientes, cobrancas, bucket, agora, ult, baixados,
          df_cobrancas, df_clientes, df_saldo, carregados, laco_ts, laco_entrada, pc>>

varsAgenda == <<plano, vencs>>
varsSaldo == <<df_cobrancas, df_clientes, df_saldo>>
varsLaco == <<laco_ts, laco_entrada, pc>>

\* An optional value: None / a NULL column is <<>>, a present value v is <<v>>.
NULL == <<>>
Some(v) == <<v>>

\* No submit has happened yet.
SemSubmit == [pagina |-> "nenhuma", msg |-> "nenhuma"]

\* The sessions (browser tabs) that may run a page at the same time.
Usuarios == {"u1", "u2"}

\* No settlement run is between its read and its write.
SemCarga == carregados = [u \in Usuarios |-> <<>>]

\* ajustar_dia_util is not running.
SemLaco == laco_ts = 0 /\ laco_entrada = 0 /\ pc = "fora"

(***************************************************************************)
(* Dates.  A pd.Timestamp at midnight is its day number since 1970-01-01;  *)
(* .date() / str(date) is the civil triple <<year, month, day>>.           *)
(***************************************************************************)
EhBissexto(y) == (y % 4 = 0 /\ y % 100 # 0) \/ y % 400 = 0

DiasNoMes(y, m) ==
    IF m = 2 THEN (IF EhBissexto(y) THEN 29 ELSE 28)
    ELSE IF m \in {4, 6, 9, 11} THEN 30 ELSE 31

\* Day number of the civil date <<y, m, d>> (proleptic Gregorian): the days
\* of the years before March of year y0, plus the day of that March-based year.
OrdinalDe(y0, mp, d) ==
    ((y0 \div 400) * 146097) + ((y0 % 400) * 365) + ((y0 % 400) \div 4)
        - ((y0 % 400) \div 100) + ((153 * mp + 2) \div 5) + d - 1 - 719468

Ordinal(t) ==
    IF t[2] <= 2 THEN OrdinalDe(t[1] - 1, t[2] + 9, t[3])
    ELSE OrdinalDe(t[1], t[2] - 3, t[3])

\* Timestamp.date(): the civil triple of a day number, step by step: the
\* 400-year era, the day and year within it, the March-based day of year
\* and month, then the civil month and year.
DateCivil(y0, m, d) == <<y0 + (IF m <= 2 THEN 1 ELSE 0), m, d>>

DateMes(y0, doy, mp) ==
    DateCivil(y0, IF mp < 10 THEN mp + 3 ELSE mp - 9, doy - ((153 * mp + 2) \div 5) + 1)

DateDiaDoAno(era, yoe, doy) == DateMes(yoe + (era * 400), doy, (5 * doy + 2) \div 153)

DateAnoDaEra(era, doe, yoe) ==
    DateDiaDoAno(era, yoe, doe - ((365 * yoe) + (yoe \div 4) - (yoe \div 100)))

DateEra(era, doe) ==
    DateAnoDaEra(era, doe,
        (doe - (doe \div 1460) + (doe \div 36524) - (doe \div 146096)) \div 365)

DateDe(z) == DateEra(z \div 146097, z % 146097)

Date(n) == DateDe(n + 719468)

\* Timestamp.weekday(): Monday = 0 .. Sunday = 6 (1970-01-01 was a Thursday).
Weekday(n) == (n + 3) % 7

\* ts + pd.DateOffset(months=i): same day of the month, clamped to its end.
NoMes(y, m, d) == Ordinal(<<y, m, IF d > DiasNoMes(y, m) THEN DiasNoMes(y, m) ELSE d>>)

\* Mutant: the month wraps past December but the year is not carried.
MesesDepois_SemVirada(t, k) == NoMes(t[1], (k % 12) + 1, t[3])

MesesDepois(t, k) == NoMes(t[1] + (k \div 12), (k % 12) + 1, t[3])

SomarMeses(t, i) == MesesDepois(t, (t[2] - 1) + i)

DateOffsetMonths(n, i) == SomarMeses(Date(n), i)

\* ts + pd.Timedelta(days=k)
Timedelta(n, k) == n + k

(***************************************************************************)
(* Holidays: FERIADOS_BR is holidays.Brazil() when the library imports,    *)
(* and the empty list otherwise.  The library's national calendar is the   *)
(* fixed-date holidays plus Good Friday (two days before Easter Sunday).   *)
(***************************************************************************)
PascoaDia(y, n) == Ordinal(<<y, n \div 31, (n % 31) + 1>>)

PascoaLua(y, a, h, l) == PascoaDia(y, h + l - (7 * ((a + (11 * h) + (22 * l)) \div 451)) + 114)

PascoaSemana(y, a, b, c, h) ==
    PascoaLua(y, a, h, (32 + (2 * (b % 4)) + (2 * (c \div 4)) - h - (c % 4)) % 7)

PascoaEpacta(y, a, b, c) ==
    PascoaSemana(y, a, b, c,
        ((19 * a) + b - (b \div 4) - ((b - ((b + 8) \div 25) + 1) \div 3) + 15) % 30)

\* Easter Sunday of year y (the Gregorian computus).
Pascoa(y) == PascoaEpacta(y, y % 19, y \div 100, y % 100)

FeriadosFixos == {<<1, 1>>, <<4, 21>>, <<5, 1>>, <<9, 7>>, <<10, 12>>,
                  <<11, 2>>, <<11, 15>>, <<11, 20>>, <<12, 25>>}

Anos == 2024 .. 2027

FeriadosBrasil ==
    {<<y, md[1], md[2]>> : y \in Anos, md \in FeriadosFixos}
        \cup {Date(Pascoa(y) - 2) : y \in Anos}

\* The two outcomes of the import at lines 37-43.
FeriadosPossiveis == {{}, FeriadosBrasil}

(***************************************************************************)
(* Installment scheduler                                                   *)
(***************************************************************************)
\* Mutant: only weekends are skipped, the holiday list is never consulted.
RECURSIVE ajustar_so_fim_de_semana(_)
ajustar_so_fim_de_semana(data_ts) ==
    IF Weekday(data_ts) >= 5
    THEN ajustar_so_fim_de_semana(Timedelta(data_ts, 1))
    ELSE data_ts

RECURSIVE ajustar_dia_util(_)
ajustar_dia_util(data_ts) ==
    IF Weekday(data_ts) >= 5 \/ Date(data_ts) \in FERIADOS_BR
    THEN ajustar_dia_util(Timedelta(data_ts, 1))
    ELSE data_ts

Mensal == "Mensal (Mesmo dia)"
Personalizado == "Personalizado (Dias Corridos)"

\* Unadjusted due date of installment i (0-based), lines 409-412.
venc_base_parcela(data_base, i, tipo_intervalo, dias_intervalo) ==
    IF tipo_intervalo = Mensal
    THEN DateOffsetMonths(data_base, i)
    ELSE Timedelta(data_base, dias_intervalo * i)

\* Mutant: the skip flag is ignored and every date is adjusted.
venc_final_sempre_ajusta(data_base, i, tipo_intervalo, dias_intervalo, pular_fds) ==
    ajustar_dia_util(venc_base_parcela(data_base, i, tipo_intervalo, dias_intervalo))

\* Final due date of installment i (0-based), lines 414-419.
venc_final_dt(data_base, i, tipo_intervalo, dias_intervalo, pular_fds) ==
    IF pular_fds
    THEN ajustar_dia_util(venc_base_parcela(data_base, i, tipo_intervalo, dias_intervalo))
    ELSE venc_base_parcela(data_base, i, tipo_intervalo, dias_intervalo)

\* The due dates the loop at line 408 produces, installment i at index i + 1.
VencimentosAuto(p) ==
    [k \in 1 .. p.qtd_parcelas |->
        venc_final_dt(p.data_base, k - 1, p.tipo_intervalo, p.dias_intervalo, p.pular_fds)]

\* ------------------------------------------------------------- bounds
MaxParcelas == 3
MaxAgora == 4
JanelaDias == 425

PrimeiroDia == Ordinal(<<2024, 1, 1>>)
DatasBase == PrimeiroDia .. PrimeiroDia + JanelaDias
DiasIntervalo == {1, 2, 15, 30}

Planos ==
    [data_base : DatasBase, qtd_parcelas : 2 .. MaxParcelas,
     tipo_intervalo : {Mensal}, dias_intervalo : {30}, pular_fds : BOOLEAN]
    \cup
    [data_base : DatasBase, qtd_parcelas : 2 .. MaxParcelas,
     tipo_intervalo : {Personalizado}, dias_intervalo : DiasIntervalo, pular_fds : BOOLEAN]

(***************************************************************************)
(* SpecAgenda: the scheduler as a pure function of the form's inputs.      *)
(***************************************************************************)
InitAgenda ==
    /\ FERIADOS_BR \in FeriadosPossiveis
    /\ plano \in Planos
    /\ vencs = <<>>
    /\ clientes = <<>> /\ cobrancas = <<>> /\ bucket = {}
    /\ agora = 0 /\ ult = SemSubmit /\ baixados = {}
    /\ df_cobrancas = <<>> /\ df_clientes = <<>> /\ df_saldo = NULL
    /\ SemCarga /\ SemLaco

GerarParcelas ==
    /\ vencs = <<>>
    /\ vencs' = VencimentosAuto(plano)
    /\ UNCHANGED <<FERIADOS_BR, plano, clientes, cobrancas, bucket, agora, ult, baixados, varsSaldo, varsLaco, carregados>>

NextAgenda == GerarParcelas

SpecAgenda == InitAgenda /\ [][NextAgenda]_vars

\* C6: the auto-filled schedule has exactly qtd_parcelas due dates, one per
\* index 0 .. qtd_parcelas - 1, in non-decreasing order, for every start date,
\* count >= 2, interval policy and value of the skip flag.
C6_ContagemEOrdem ==
    vencs # <<>> =>
        /\ Len(vencs) = plano.qtd_parcelas
        /\ DOMAIN vencs = 1 .. plano.qtd_parcelas
        /\ \A k \in 1 .. Len(vencs) - 1 : vencs[k] <= vencs[k + 1]

\* A schedule over a year's end, and one where skipping makes two
\* installments fall due on the same day.
C6_Witness ==
    /\ vencs # <<>>
    /\ Len(vencs) >= 3
    /\ \/ /\ plano.tipo_intervalo = Mensal
          /\ Date(vencs[1])[1] < Date(vencs[Len(vencs)])[1]
       \/ /\ plano.pular_fds
          /\ vencs[1] = vencs[2]

DiaQualifica(n) == Weekday(n) < 5 /\ Date(n) \notin FERIADOS_BR

\* C7: with skipping enabled no due date falls on a Saturday, a Sunday or a
\* listed holiday; each is the first qualifying day at or after the
\* unadjusted date, and an unadjusted date that qualifies is kept.
C7_PrimeiroDiaUtil ==
    (vencs # <<>> /\ plano.pular_fds) =>
        \A k \in DOMAIN vencs :
            /\ DiaQualifica(vencs[k])
            /\ vencs[k] >= venc_base_parcela(plano.data_base, k - 1,
                                             plano.tipo_intervalo, plano.dias_intervalo)
            /\ \A n \in venc_base_parcela(plano.data_base, k - 1, plano.tipo_intervalo,
                                          plano.dias_intervalo) .. vencs[k] - 1 :
                   ~DiaQualifica(n)

\* A holiday on a Friday: the due date moves over it and over the weekend.
C7_Witness ==
    /\ vencs # <<>> /\ plano.pular_fds
    /\ \E k \in DOMAIN vencs :
          /\ Date(venc_base_parcela(plano.data_base, k - 1, plano.tipo_intervalo,
                                    plano.dias_intervalo)) \in FERIADOS_BR
          /\ vencs[k] = venc_base_parcela(plano.data_base, k - 1, plano.tipo_intervalo,
                                          plano.dias_intervalo) + 3

(***************************************************************************)
(* Text.  A description is its free text plus, for an installment, the     *)
(* suffix "(Parcela i/N)"; the only blank texts of the model are "" and    *)
(* " ".                                                                    *)
(***************************************************************************)
Strip(s) == IF s = " " THEN "" ELSE s

Texto(s) == [texto |-> s, parcela |-> <<>>]

\* f"{descricao} {texto_parcela}".strip() if descricao else texto_parcela
desc_final(descricao, i, n) == [texto |-> Strip(descricao), parcela |-> <<i, n>>]

\* x or None
OrNone(s) == IF s = "" THEN NULL ELSE Some(s)

\* str(date): the ISO text of a date, year-month-day.
StrDate(n) == Date(n)

\* pd.to_datetime(text).date()
ToDate(t) == Ordinal(t)

(***************************************************************************)
(* Backend: tables with backend-assigned ids, and the object store.  A     *)
(* call either takes effect or raises and changes nothing.                 *)
(***************************************************************************)
InsertCliente(tab, data) == Append(tab, [id |-> Len(tab) + 1] @@ data)

InsertCobrancas(tab, payload_list) ==
    tab \o [k \in 1 .. Len(payload_list) |->
              [id |-> Len(tab) + k, arquivo_url |-> NULL, data_pagamento |-> NULL]
                  @@ payload_list[k]]

UpdateCobranca(tab, id, campos) ==
    [k \in DOMAIN tab |-> IF tab[k].id = id THEN campos @@ tab[k] ELSE tab[k]]

get_public_url(path) == [url |-> path]

\* One backend call applied to the tables and the bucket.
Efeito(c, cob, bkt) ==
    CASE c.op = "insert" -> [cobrancas |-> InsertCobrancas(cob, c.payload_list), bucket |-> bkt]
      [] c.op = "upload" -> [cobrancas |-> cob, bucket |-> bkt \cup {c.path}]
      [] c.op = "update" -> [cobrancas |-> UpdateCobranca(cob, c.id, c.campos), bucket |-> bkt]

\* Mutant: a raising call undoes the calls that went through before it.
Executar_ComRollback(chamadas, falha, cob, bkt) ==
    LET n == IF falha = 0 THEN Len(chamadas) ELSE 0
        apos[k \in 0 .. n] ==
            IF k = 0 THEN [cobrancas |-> cob, bucket |-> bkt]
            ELSE Efeito(chamadas[k], apos[k - 1].cobrancas, apos[k - 1].bucket)
    IN  apos[n]

\* The calls of a submit run in order; call number `falha` raises (0: none
\* does), and the handler's try block ends there.
Executar(chamadas, falha, cob, bkt) ==
    LET n == IF falha = 0 THEN Len(chamadas) ELSE falha - 1
        apos[k \in 0 .. n] ==
            IF k = 0 THEN [cobrancas |-> cob, bucket |-> bkt]
            ELSE Efeito(chamadas[k], apos[k - 1].cobrancas, apos[k - 1].bucket)
    IN  apos[n]

\* How many calls of each kind a submit issued (the raising one included).
Emitidas(chamadas, falha, op) ==
    Cardinality({k \in 1 .. Len(chamadas) :
                    /\ chamadas[k].op = op
                    /\ (falha = 0 \/ k <= falha)})

RECURSIVE Concat(_)
Concat(ss) == IF ss = <<>> THEN <<>> ELSE Head(ss) \o Concat(Tail(ss))

Nomes(tab) == {tab[k].nome : k \in DOMAIN tab}
IdsComNome(tab, nome) == {tab[k].id : k \in {j \in DOMAIN tab : tab[j].nome = nome}}
PorId(tab, id) == tab[CHOOSE k \in DOMAIN tab : tab[k].id = id]

(***************************************************************************)
(* Page: register customer (pagina_cadastrar_cliente)                      *)
(***************************************************************************)
\* Mutant: empty optional fields are stored as empty strings, not as NULL.
dataCliente_SemNone(f) ==
    [nome |-> f.nome, documento |-> Some(f.documento),
     email |-> Some(f.email), telefone |-> Some(f.telefone),
     created_at |-> agora]

dataCliente(f) ==
    [nome |-> f.nome, documento |-> OrNone(f.documento),
     email |-> OrNone(f.email), telefone |-> OrNone(f.telefone),
     created_at |-> agora]

CadastrarCliente(f, falha) ==
    /\ agora < MaxAgora
    /\ agora' = agora + 1
    /\ IF f.nome = ""
       THEN /\ ult' = [pagina |-> "cadastrar", msg |-> "warning", form |-> f,
                       falha |-> 0, inserts |-> 0]
            /\ UNCHANGED clientes
       ELSE IF falha = 1
       THEN /\ ult' = [pagina |-> "cadastrar", msg |-> "error", form |-> f,
                       falha |-> 1, inserts |-> 1]
            /\ UNCHANGED clientes
       ELSE /\ clientes' = InsertCliente(clientes, dataCliente(f))
            /\ ult' = [pagina |-> "cadastrar", msg |-> "success", form |-> f,
                       falha |-> 0, inserts |-> 1]
    /\ UNCHANGED <<FERIADOS_BR, varsAgenda, varsSaldo, varsLaco, carregados, cobrancas, bucket, baixados>>

(***************************************************************************)
(* Page: issue invoices (pagina_lancar_cobranca)                           *)
(***************************************************************************)
Unico == "Unico"
Parcelado == "Parcelado"

EhManual(f) == f.tipo_lancamento = Parcelado /\ ~f.preenchimento_auto

\* Mutant: only negative amounts are refused, zero passes.
ValorInvalido_SoNegativo(f) ==
    IF EhManual(f)
    THEN \E k \in DOMAIN f.parcelas_info : f.parcelas_info[k].valor < 0
    ELSE f.valor_base < 0

\* The validation of lines 398, 406 and 431.
ValorInvalido(f) ==
    IF EhManual(f)
    THEN \E k \in DOMAIN f.parcelas_info : f.parcelas_info[k].valor <= 0
    ELSE f.valor_base <= 0

linhaDe(cliente_id, valor, venc_texto, descricao) ==
    [cliente_id |-> cliente_id, valor |-> valor,
     vencimento |-> venc_texto, data_vencimento |-> venc_texto \o <<0, 0, 0>>,
     descricao |-> descricao, status |-> "pendente", created_at |-> agora]

\* One row of the payload: "vencimento" is str(date), "data_vencimento" is
\* datetime.combine(date, datetime.min.time()).isoformat().
linha(cliente_id, valor, venc, descricao) == linhaDe(cliente_id, valor, StrDate(venc), descricao)

payload_list(f, cliente_id) ==
    IF f.tipo_lancamento = Unico
    THEN <<linha(cliente_id, f.valor_base, f.data_base,
                 IF f.descricao = "" THEN NULL ELSE Some(Texto(f.descricao)))>>
    ELSE IF f.preenchimento_auto
    THEN [k \in 1 .. f.qtd_parcelas |->
            linha(cliente_id, f.valor_base, VencimentosAuto(f)[k],
                  Some(desc_final(f.descricao, k, f.qtd_parcelas)))]
    ELSE [k \in 1 .. Len(f.parcelas_info) |->
            linha(cliente_id, f.parcelas_info[k].valor, f.parcelas_info[k].vencimento,
                  Some(desc_final(f.descricao, k, f.qtd_parcelas)))]

\* Ids the batch insert returns (dados_inseridos), in payload order.
IdInserido(k) == Len(cobrancas) + k

path_global(f) == [id |-> IdInserido(1), tipo |-> "global", em |-> agora]
path_indiv(k) == [id |-> IdInserido(k), tipo |-> "indiv", em |-> agora]

TemEspecifico(f, k) == EhManual(f) /\ f.parcelas_info[k].arquivo

\* Mutant: the global attachment wins over the installment's own.
url_final_GlobalPrimeiro(f, k) ==
    IF f.arquivo_global THEN Some(get_public_url(path_global(f)))
    ELSE IF TemEspecifico(f, k) THEN Some(get_public_url(path_indiv(k)))
    ELSE NULL

\* url_final of lines 457-469 for the k-th inserted row.
url_final(f, k) ==
    IF TemEspecifico(f, k) THEN Some(get_public_url(path_indiv(k)))
    ELSE IF f.arquivo_global THEN Some(get_public_url(path_global(f)))
    ELSE NULL

\* The calls for the k-th inserted row: its own upload, then its URL update.
ChamadasDaLinha(f, k, url) ==
    (IF TemEspecifico(f, k) THEN <<[op |-> "upload", path |-> path_indiv(k)]>> ELSE <<>>)
    \o (IF url # NULL
        THEN <<[op |-> "update", id |-> IdInserido(k), campos |-> [arquivo_url |-> url]]>>
        ELSE <<>>)

\* The backend calls of a valid issue submit, in the order the code makes them.
ChamadasApos(f, pl) ==
    <<[op |-> "insert", payload_list |-> pl]>>
    \o (IF f.arquivo_global THEN <<[op |-> "upload", path |-> path_global(f)]>> ELSE <<>>)
    \o Concat([k \in 1 .. Len(pl) |-> ChamadasDaLinha(f, k, url_final(f, k))])

ChamadasLancar(f, cliente_id) == ChamadasApos(f, payload_list(f, cliente_id))

ultLancar(f, falha, cliente_id, msg, ch) ==
    [pagina |-> "lancar", msg |-> msg, form |-> f, falha |-> falha,
     cliente_id |-> cliente_id, antes |-> Len(cobrancas),
     inserts |-> Emitidas(ch, falha, "insert"),
     uploads |-> Emitidas(ch, falha, "upload"),
     updates |-> Emitidas(ch, falha, "update")]

LancarEfeito(r) ==
    /\ cobrancas' = r.cobrancas
    /\ bucket' = r.bucket

LancarValido(f, falha, cliente_id, ch) ==
    /\ falha <= Len(ch)
    /\ LancarEfeito(Executar(ch, falha, cobrancas, bucket))
    /\ ult' = ultLancar(f, falha, cliente_id, IF falha = 0 THEN "success" ELSE "error", ch)

LancarCobranca(f, falha) ==
    /\ agora < MaxAgora
    /\ clientes # <<>>
    /\ f.cliente_nome \in Nomes(clientes)
    /\ agora' = agora + 1
    /\ \E cliente_id \in IdsComNome(clientes, f.cliente_nome) :
         IF ValorInvalido(f)
         THEN /\ falha = 0
              /\ ult' = ultLancar(f, 0, cliente_id, "warning", <<>>)
              /\ UNCHANGED <<cobrancas, bucket>>
         ELSE LancarValido(f, falha, cliente_id, ChamadasLancar(f, cliente_id))
    /\ UNCHANGED <<FERIADOS_BR, varsAgenda, varsSaldo, varsLaco, carregados, clientes, baixados>>

\* ------------------------------------------------- the forms' input sets
DiasPadrao == 30
Hoje == PrimeiroDia

Valores == {0, 1, 2}
Descricoes == {"", " ", "x"}
\* A Wednesday at a month's end, Good Friday 2024, a Saturday at a month's end.
DatasLancar == {Ordinal(<<2024, 1, 31>>), Ordinal(<<2024, 3, 29>>), Ordinal(<<2024, 11, 30>>)}
Parcela(valor, vencimento, arquivo) ==
    [valor |-> valor, vencimento |-> vencimento, arquivo |-> arquivo]
\* One installment of the manual form: an amount, a due date, maybe a file.
ParcelasManuais ==
    {Parcela(0, Ordinal(<<2024, 1, 31>>), FALSE), Parcela(1, Ordinal(<<2024, 1, 31>>), FALSE),
     Parcela(1, Ordinal(<<2024, 3, 2>>), TRUE), Parcela(2, Ordinal(<<2024, 3, 2>>), FALSE)}

FormUnico(nome, descricao, arquivo_global, valor, data) ==
    [cliente_nome |-> nome, descricao |-> descricao, arquivo_global |-> arquivo_global,
     tipo_lancamento |-> Unico, preenchimento_auto |-> TRUE, qtd_parcelas |-> 1,
     tipo_intervalo |-> Mensal, dias_intervalo |-> DiasPadrao, pular_fds |-> TRUE,
     valor_base |-> valor, data_base |-> data, parcelas_info |-> <<>>]

FormAuto(nome, descricao, arquivo_global, valor, data, qtd, tipo, dias, pular) ==
    [cliente_nome |-> nome, descricao |-> descricao, arquivo_global |-> arquivo_global,
     tipo_lancamento |-> Parcelado, preenchimento_auto |-> TRUE, qtd_parcelas |-> qtd,
     tipo_intervalo |-> tipo, dias_intervalo |-> dias, pular_fds |-> pular,
     valor_base |-> valor, data_base |-> data, parcelas_info |-> <<>>]

FormManual(nome, descricao, arquivo_global, parcelas) ==
    [cliente_nome |-> nome, descricao |-> descricao, arquivo_global |-> arquivo_global,
     tipo_lancamento |-> Parcelado, preenchimento_auto |-> FALSE,
     qtd_parcelas |-> Len(parcelas),
     tipo_intervalo |-> Mensal, dias_intervalo |-> DiasPadrao, pular_fds |-> TRUE,
     valor_base |-> 0, data_base |-> Hoje, parcelas_info |-> parcelas]

Intervalos == {<<Mensal, DiasPadrao>>, <<Personalizado, 1>>, <<Personalizado, 15>>}

\* Every form the issue page can submit, within the input sets above.
FormsLancar(nomes) ==
    {FormUnico(n, d, g, v, dt) :
        n \in nomes, d \in Descricoes, g \in BOOLEAN, v \in Valores, dt \in DatasLancar}
    \cup
    {FormAuto(n, d, g, x[1], x[2], q, iv[1], iv[2], p) :
        n \in nomes, d \in Descricoes, g \in BOOLEAN, x \in Valores \X DatasLancar,
        q \in 2 .. MaxParcelas, iv \in Intervalos, p \in BOOLEAN}
    \cup
    UNION {{FormManual(n, d, g, ps) :
              n \in nomes, d \in Descricoes, g \in BOOLEAN,
              ps \in [1 .. q -> ParcelasManuais]} : q \in 2 .. MaxParcelas}

\* A submit makes at most 2 + 2 * qtd_parcelas backend calls.
Falhas(f) == 0 .. (2 + 2 * f.qtd_parcelas)

RECURSIVE Tabela(_)
Tabela(nomes) ==
    IF nomes = <<>> THEN <<>>
    ELSE InsertCliente(Tabela(SubSeq(nomes, 1, Len(nomes) - 1)),
                       [nome |-> nomes[Len(nomes)], documento |-> NULL, email |-> NULL,
                        telefone |-> NULL, created_at |-> 0])

\* Customer tables registration can build, two of them with a repeated name.
TabelasClientes ==
    {Tabela(<<"Ana">>), Tabela(<<"Bia", "Ana">>), Tabela(<<"Ana", "Ana">>)}

(***************************************************************************)
(* SpecLancar: one submit of the issue page, over every form, from a       *)
(* backend that holds customers and no invoice yet.                        *)
(***************************************************************************)
InitLancar ==
    /\ FERIADOS_BR \in FeriadosPossiveis
    /\ plano = <<>> /\ vencs = <<>>
    /\ clientes \in TabelasClientes
    /\ cobrancas = <<>> /\ bucket = {}
    /\ agora = MaxAgora - 1
    /\ ult = SemSubmit /\ baixados = {}
    /\ df_cobrancas = <<>> /\ df_clientes = <<>> /\ df_saldo = NULL
    /\ SemCarga /\ SemLaco

NextLancar ==
    /\ agora < MaxAgora
    /\ \E f \in FormsLancar(Nomes(clientes)) : \E falha \in Falhas(f) : LancarCobranca(f, falha)

SpecLancar == InitLancar /\ [][NextLancar]_vars

\* The invoices the last issue submit created, by position in the table.
Criadas == (ult.antes + 1) .. Len(cobrancas)

TemValorNaoPositivo(f) ==
    IF f.tipo_lancamento = Parcelado /\ ~f.preenchimento_auto
    THEN \E k \in DOMAIN f.parcelas_info : f.parcelas_info[k].valor <= 0
    ELSE f.valor_base <= 0

\* C3: in the single, the auto-filled and the manual mode, a submit with any
\* entered amount <= 0 shows the validation message and makes no backend
\* write: no insert, no upload, no update, tables and bucket as before.
C3_ValorInvalidoNaoEscreve ==
    [][(ult'.pagina = "lancar" /\ agora' = agora + 1 /\ TemValorNaoPositivo(ult'.form)) =>
            /\ ult'.msg = "warning"
            /\ ult'.inserts = 0 /\ ult'.uploads = 0 /\ ult'.updates = 0
            /\ cobrancas' = cobrancas
            /\ bucket' = bucket]_vars

\* A manual submit whose second amount only is zero, with files attached.
C3_Witness ==
    /\ ult.pagina = "lancar" /\ ult.msg = "warning"
    /\ ult.form.tipo_lancamento = Parcelado /\ ~ult.form.preenchimento_auto
    /\ ult.form.arquivo_global
    /\ ult.form.parcelas_info[1].valor > 0
    /\ ult.form.parcelas_info[2].valor = 0

\* Whole calendar months from civil date a to civil date b.
MesesEntre(a, b) == ((b[1] * 12) + b[2]) - ((a[1] * 12) + a[2])

\* b is a's day of the month, or the last day of b's month when that is shorter.
MesmoDiaDoMes(a, b) ==
    b[3] = (IF a[3] > DiasNoMes(b[1], b[2]) THEN DiasNoMes(b[1], b[2]) ELSE a[3])

PlanoMensalSemPulo(f) ==
    /\ f.tipo_lancamento = Parcelado /\ f.preenchimento_auto
    /\ f.tipo_intervalo = Mensal /\ ~f.pular_fds
    /\ f.valor_base > 0

\* C9: an auto-filled plan of N >= 2 installments of amount A > 0, monthly,
\* skipping disabled, inserts exactly N invoices in one batch, each of amount
\* A, status pendente, the selected customer's id, installment i (0-based)
\* due exactly i calendar months after the start date.
C9_PlanoMensal ==
    (ult.pagina = "lancar" /\ PlanoMensalSemPulo(ult.form) /\ ult.falha # 1) =>
        /\ ult.inserts = 1
        /\ Len(cobrancas) = ult.antes + ult.form.qtd_parcelas
        /\ \A k \in Criadas :
              /\ cobrancas[k].id = k
              /\ cobrancas[k].valor = ult.form.valor_base
              /\ cobrancas[k].status = "pendente"
              /\ cobrancas[k].cliente_id = ult.cliente_id
              /\ PorId(clientes, cobrancas[k].cliente_id).nome = ult.form.cliente_nome
              /\ MesesEntre(Date(ult.form.data_base), cobrancas[k].vencimento)
                    = k - ult.antes - 1
              /\ MesmoDiaDoMes(Date(ult.form.data_base), cobrancas[k].vencimento)

\* Three installments from a Saturday 30 November: 30 Nov, 30 Dec, 30 Jan.
C9_Witness ==
    /\ ult.pagina = "lancar" /\ ult.msg = "success" /\ PlanoMensalSemPulo(ult.form)
    /\ ult.form.qtd_parcelas = 3
    /\ ult.form.valor_base = 2
    /\ Len(cobrancas) = 3
    /\ cobrancas[1].vencimento = <<2024, 11, 30>>
    /\ cobrancas[3].vencimento = <<2025, 1, 30>>

TemProprio(f, k) ==
    /\ f.tipo_lancamento = Parcelado /\ ~f.preenchimento_auto
    /\ f.parcelas_info[k].arquivo

EhUrlDe(url, id, tipo) ==
    /\ url # NULL
    /\ url[1].url.id = id /\ url[1].url.tipo = tipo
    /\ url[1].url \in bucket

\* C10: after a successful issuance every created invoice holds the URL of
\* its own attachment when it has one (manual mode), else the global
\* attachment's URL when one was supplied, else no URL; exactly the invoices
\* that end with a URL were updated.
C10_Anexos ==
    (ult.pagina = "lancar" /\ ult.msg = "success") =>
        /\ \A k \in Criadas :
              IF TemProprio(ult.form, k - ult.antes)
              THEN EhUrlDe(cobrancas[k].arquivo_url, cobrancas[k].id, "indiv")
              ELSE IF ult.form.arquivo_global
              THEN EhUrlDe(cobrancas[k].arquivo_url, ult.antes + 1, "global")
              ELSE cobrancas[k].arquivo_url = NULL
        /\ ult.updates = Cardinality({k \in Criadas : cobrancas[k].arquivo_url # NULL})

\* A manual plan with a global file where one installment has its own file
\* and another has none.
C10_Witness ==
    /\ ult.pagina = "lancar" /\ ult.msg = "success"
    /\ ult.form.arquivo_global
    /\ \E j, k \in Criadas :
          /\ TemProprio(ult.form, j - ult.antes)
          /\ ~TemProprio(ult.form, k - ult.antes)
          /\ cobrancas[j].arquivo_url # NULL
          /\ cobrancas[k].arquivo_url # NULL
          /\ cobrancas[j].arquivo_url # cobrancas[k].arquivo_url

(***************************************************************************)
(* SpecCadastro: two submits of the registration form, over every form,    *)
(* from an empty backend.                                                  *)
(***************************************************************************)
NomesForm == {"", " ", "Ana", "Bia"}

FormsCadastro ==
    [nome : NomesForm, documento : {"", "123"}, email : {"", "a@b"}, telefone : {"", "99"}]

InitCadastro ==
    /\ FERIADOS_BR = {}
    /\ plano = <<>> /\ vencs = <<>>
    /\ clientes = <<>> /\ cobrancas = <<>> /\ bucket = {}
    /\ agora = MaxAgora - 2
    /\ ult = SemSubmit /\ baixados = {}
    /\ df_cobrancas = <<>> /\ df_clientes = <<>> /\ df_saldo = NULL
    /\ SemCarga /\ SemLaco

NextCadastro ==
    /\ agora < MaxAgora
    /\ \E f \in FormsCadastro : \E falha \in {0, 1} : CadastrarCliente(f, falha)

SpecCadastro == InitCadastro /\ [][NextCadastro]_vars

\* C5: a registration submit with an empty name makes no backend write and
\* shows a validation warning; with a non-empty name it issues exactly one
\* insert, which (when the backend accepts it) adds exactly one customer
\* record that holds the name and NULL for every optional field left empty.
C5_Cadastro ==
    [][(ult'.pagina = "cadastrar" /\ agora' = agora + 1) =>
          IF ult'.form.nome = ""
          THEN /\ ult'.msg = "warning" /\ ult'.inserts = 0
               /\ clientes' = clientes
          ELSE /\ ult'.inserts = 1
               /\ ult'.msg \in {"success", "error"}
               /\ ult'.msg = "error" => clientes' = clientes
               /\ ult'.msg = "success" =>
                     /\ Len(clientes') = Len(clientes) + 1
                     /\ SubSeq(clientes', 1, Len(clientes)) = clientes
                     /\ clientes'[Len(clientes')].nome = ult'.form.nome
                     /\ clientes'[Len(clientes')].documento =
                           (IF ult'.form.documento = "" THEN <<>> ELSE <<ult'.form.documento>>)
                     /\ clientes'[Len(clientes')].email =
                           (IF ult'.form.email = "" THEN <<>> ELSE <<ult'.form.email>>)
                     /\ clientes'[Len(clientes')].telefone =
                           (IF ult'.form.telefone = "" THEN <<>> ELSE <<ult'.form.telefone>>)]_vars

\* A customer stored with two NULL optional fields, then an empty-name
\* submit that was refused and left the table alone.
C5_Witness ==
    /\ ult.pagina = "cadastrar" /\ ult.msg = "warning" /\ ult.form.documento # ""
    /\ Len(clientes) = 1
    /\ clientes[1].documento = NULL /\ clientes[1].telefone = NULL
    /\ clientes[1].email # NULL

(***************************************************************************)
(* Aggregation: calcular_saldo_por_cliente.  A frame is the sequence of    *)
(* its rows; a NaN / None cell is NULL.                                    *)
(***************************************************************************)
RECURSIVE SomaValor(_)
SomaValor(df) == IF df = <<>> THEN 0 ELSE Head(df).valor + SomaValor(Tail(df))

EhPendente(r) == r.status = "pendente"

\* groupby("cliente_id") keeps the non-null keys, in ascending order.
ChavesDoGrupo(df) == {df[k].cliente_id[1] : k \in {j \in DOMAIN df : df[j].cliente_id # NULL}}

RECURSIVE EmOrdem(_)
EmOrdem(S) ==
    IF S = {} THEN <<>>
    ELSE <<CHOOSE x \in S : \A y \in S : x <= y>>
            \o EmOrdem(S \ {CHOOSE x \in S : \A y \in S : x <= y})

DoCliente(df, id) == SelectSeq(df, LAMBDA r : r.cliente_id = Some(id))

\* df.groupby("cliente_id")["valor"].sum().reset_index(name="saldo_pendente")
df_group(df) ==
    [k \in 1 .. Cardinality(ChavesDoGrupo(df)) |->
        [cliente_id |-> EmOrdem(ChavesDoGrupo(df))[k],
         saldo_pendente |-> SomaValor(DoCliente(df, EmOrdem(ChavesDoGrupo(df))[k]))]]

\* The name joined to a group row: NaN when no customer has the id.
NomeDoCliente(tab, id) ==
    IF \E k \in DOMAIN tab : tab[k].id = id THEN Some(PorId(tab, id).nome) ELSE NULL

\* merge(df_aux, on="cliente_id", how="left"), customer ids being unique.
Merge(grupo, tab) ==
    [k \in DOMAIN grupo |->
        [cliente_nome |-> NomeDoCliente(tab, grupo[k].cliente_id)] @@ grupo[k]]

SaldoDosPendentes(df, tab) ==
    IF df = <<>> THEN <<>>
    ELSE IF tab # <<>> THEN Merge(df_group(df), tab)
    ELSE df_group(df)

calcular_saldo_por_cliente(cob, cli) ==
    IF cob = <<>> THEN <<>>
    ELSE SaldoDosPendentes(SelectSeq(cob, EhPendente), cli)

\* ------------------------------------------------------------- bounds
MaxLinhas == 3

LinhasSaldo ==
    [cliente_id : {NULL, Some(1), Some(3)}, valor : {1, 2},
     status : {"pendente", "pago", "baixado"}]

(***************************************************************************)
(* SpecSaldo: the aggregation as a pure function of the two frames.        *)
(***************************************************************************)
InitSaldo ==
    /\ FERIADOS_BR = {}
    /\ plano = <<>> /\ vencs = <<>>
    /\ clientes = <<>> /\ cobrancas = <<>> /\ bucket = {}
    /\ agora = 0 /\ ult = SemSubmit /\ baixados = {}
    /\ df_cobrancas \in UNION {[1 .. n -> LinhasSaldo] : n \in 0 .. MaxLinhas}
    /\ df_clientes \in {<<>>, Tabela(<<"Ana">>), Tabela(<<"Ana", "Bia">>)}
    /\ df_saldo = NULL
    /\ SemCarga /\ SemLaco

CalcularSaldo ==
    /\ df_saldo = NULL
    /\ df_saldo' = Some(calcular_saldo_por_cliente(df_cobrancas, df_clientes))
    /\ UNCHANGED <<FERIADOS_BR, varsAgenda, varsLaco, carregados, clientes, cobrancas, bucket, agora, ult,
                   baixados, df_cobrancas, df_clientes>>

NextSaldo == CalcularSaldo

SpecSaldo == InitSaldo /\ [][NextSaldo]_vars

RECURSIVE SomaSaldo(_)
SomaSaldo(df) == IF df = <<>> THEN 0 ELSE Head(df).saldo_pendente + SomaSaldo(Tail(df))

Pendentes(df) == SelectSeq(df, LAMBDA r : r.status = "pendente")

\* C8: calcular_saldo_por_cliente returns an empty result when no invoice is
\* pendente; otherwise its saldo_pendente column sums to the sum of valor
\* over all pendente invoices, those with a null or unmatched cliente_id
\* included.
C8_SomaDosPendentes ==
    df_saldo # NULL =>
        IF Pendentes(df_cobrancas) = <<>>
        THEN df_saldo[1] = <<>>
        ELSE SomaSaldo(df_saldo[1]) = SomaValor(Pendentes(df_cobrancas))

\* One pending invoice without a customer: the result is empty, the pending
\* amount is not.
C8_Witness ==
    /\ df_saldo = Some(<<>>)
    /\ Len(df_cobrancas) = 1
    /\ df_cobrancas[1].status = "pendente" /\ df_cobrancas[1].cliente_id = NULL
    /\ SomaValor(Pendentes(df_cobrancas)) = 1

(***************************************************************************)
(* Page: edit invoice (pagina_editar_cobranca)                             *)
(***************************************************************************)
status_opcoes == {"pendente", "pago", "baixado"}

\* nome_do_cliente of the left merge, and the name the select box starts on.
nome_atual(row) == NomeDoCliente(clientes, row.cliente_id)

NomePadrao(nome) == IF nome # NULL THEN nome[1] ELSE clientes[1].nome

\* The form as the page opens it on an invoice, no new file chosen.
FormPadraoEditar(row) ==
    [novo_cliente_nome |-> NomePadrao(nome_atual(row)),
     novo_valor |-> row.valor,
     novo_vencimento |-> ToDate(row.vencimento),
     novo_status |-> IF row.status \in status_opcoes THEN row.status ELSE "pendente",
     nova_desc |-> IF row.descricao = NULL THEN Texto("") ELSE row.descricao[1],
     arquivo |-> FALSE]

\* nova_desc.strip() is empty
EhBranco(desc) == desc.parcela = <<>> /\ Strip(desc.texto) = ""

\* Mutant: every edit writes the status 'pendente', whatever the form says.
payloadEditar_StatusPendente(f, novo_cliente_id) ==
    [cliente_id |-> novo_cliente_id, valor |-> f.novo_valor,
     vencimento |-> StrDate(f.novo_vencimento),
     data_vencimento |-> StrDate(f.novo_vencimento) \o <<0, 0, 0>>,
     descricao |-> IF EhBranco(f.nova_desc) THEN NULL ELSE Some(f.nova_desc),
     status |-> "pendente"]

payloadEditar(f, novo_cliente_id) ==
    [cliente_id |-> novo_cliente_id, valor |-> f.novo_valor,
     vencimento |-> StrDate(f.novo_vencimento),
     data_vencimento |-> StrDate(f.novo_vencimento) \o <<0, 0, 0>>,
     descricao |-> IF EhBranco(f.nova_desc) THEN NULL ELSE Some(f.nova_desc),
     status |-> f.novo_status]

pathEditar(id_boleto) == [id |-> id_boleto, tipo |-> "edit", em |-> agora]

\* Mutant: the update carries arquivo_url always, NULL without a new file.
camposEditar_SempreUrl(f, id_boleto, payload) ==
    [arquivo_url |-> IF f.arquivo THEN Some(get_public_url(pathEditar(id_boleto))) ELSE NULL]
        @@ payload

camposEditar(f, id_boleto, payload) ==
    IF f.arquivo
    THEN [arquivo_url |-> Some(get_public_url(pathEditar(id_boleto)))] @@ payload
    ELSE payload

ChamadasEditar(f, id_boleto, campos) ==
    (IF f.arquivo THEN <<[op |-> "upload", path |-> pathEditar(id_boleto)]>> ELSE <<>>)
    \o <<[op |-> "update", id |-> id_boleto, campos |-> campos]>>

ultEditar(f, falha, id_boleto, novo_cliente_id, ch) ==
    [pagina |-> "editar", msg |-> IF falha = 0 THEN "success" ELSE "error",
     form |-> f, falha |-> falha, id |-> id_boleto, cliente_id |-> novo_cliente_id,
     uploads |-> Emitidas(ch, falha, "upload"),
     updates |-> Emitidas(ch, falha, "update")]

EditarCom(f, falha, id_boleto, novo_cliente_id, ch) ==
    /\ falha <= Len(ch)
    /\ LancarEfeito(Executar(ch, falha, cobrancas, bucket))
    /\ ult' = ultEditar(f, falha, id_boleto, novo_cliente_id, ch)

EditarCobranca(id_boleto, f, falha) ==
    /\ agora < MaxAgora
    /\ cobrancas # <<>>
    /\ id_boleto \in {cobrancas[k].id : k \in DOMAIN cobrancas}
    /\ f.novo_cliente_nome \in Nomes(clientes)
    /\ agora' = agora + 1
    /\ \E novo_cliente_id \in IdsComNome(clientes, f.novo_cliente_nome) :
         EditarCom(f, falha, id_boleto, novo_cliente_id,
                   ChamadasEditar(f, id_boleto,
                                  camposEditar(f, id_boleto, payloadEditar(f, novo_cliente_id))))
    /\ UNCHANGED <<FERIADOS_BR, varsAgenda, varsSaldo, varsLaco, carregados, clientes, baixados>>

(***************************************************************************)
(* Page: settle invoice (pagina_baixar_boletos)                            *)
(***************************************************************************)
Pago == "Pago"
BaixadoCancelado == "Baixado / Cancelado"

novo_status(acao) == IF acao = Pago THEN "pago" ELSE "baixado"

\* The ids offered by the page: df_abertos.
df_abertos == {cobrancas[k].id : k \in {j \in DOMAIN cobrancas : cobrancas[j].status = "pendente"}}

\* Mutant: the first update carries the status alone, as the fallback does.
payload_completo_SemData(acao) == [status |-> novo_status(acao)]

payload_completo(acao) == [status |-> novo_status(acao), data_pagamento |-> Some(agora)]

\* Mutant: the retry carries the timestamp as well.
payload_reserva_ComData(acao) == [status |-> novo_status(acao), data_pagamento |-> Some(agora)]

\* The payload of the retry (line 635).
payload_reserva(acao) == [status |-> novo_status(acao)]

\* `falhas` of the update calls raise: none, the first, or both.
CobrancasAposBaixa(cobranca_id, acao, falhas) ==
    CASE falhas = 0 -> UpdateCobranca(cobrancas, cobranca_id, payload_completo(acao))
      [] falhas = 1 -> UpdateCobranca(cobrancas, cobranca_id, payload_reserva(acao))
      [] OTHER -> cobrancas

\* History: the invoices the settlement page has settled.
BaixadosApos(cobranca_id, falhas) ==
    IF falhas < 2 THEN baixados \cup {cobranca_id} ELSE baixados

BaixarBoleto(cobranca_id, acao, falhas) ==
    /\ agora < MaxAgora
    /\ cobrancas # <<>>
    /\ cobranca_id \in df_abertos
    /\ agora' = agora + 1
    /\ cobrancas' = CobrancasAposBaixa(cobranca_id, acao, falhas)
    /\ baixados' = BaixadosApos(cobranca_id, falhas)
    /\ ult' = [pagina |-> "baixar", msg |-> IF falhas < 2 THEN "success" ELSE "error",
               id |-> cobranca_id, acao |-> acao, falhas |-> falhas,
               updates |-> IF falhas = 0 THEN 1 ELSE 2]
    /\ UNCHANGED <<FERIADOS_BR, varsAgenda, varsSaldo, varsLaco, carregados, clientes, bucket>>

\* ------------------------------------------------- the forms' input sets
Ids(tab) == {tab[k].id : k \in DOMAIN tab}

DatasEditar(row) == {ToDate(row.vencimento), Ordinal(<<2024, 2, 29>>)}
DescricoesEditar(row) == {FormPadraoEditar(row).nova_desc, Texto(" "), Texto("y")}

\* Every form the edit page can submit on an invoice, within the input sets.
FormsEditar(row) ==
    [novo_cliente_nome : Nomes(clientes),
     novo_valor : {row.valor, 0, 2},
     novo_vencimento : DatasEditar(row),
     novo_status : status_opcoes,
     nova_desc : DescricoesEditar(row),
     arquivo : BOOLEAN]

\* The form as opened, with at most one field changed.
FormsEditarMin(row) ==
    {[FormPadraoEditar(row) EXCEPT !.novo_status = s] : s \in status_opcoes}
    \cup {[FormPadraoEditar(row) EXCEPT !.novo_cliente_nome = n] : n \in Nomes(clientes)}
    \cup {[FormPadraoEditar(row) EXCEPT !.arquivo = TRUE],
          [FormPadraoEditar(row) EXCEPT !.nova_desc = Texto(" ")],
          [FormPadraoEditar(row) EXCEPT !.novo_valor = 0]}

\* A few forms of the issue page: single invoices with and without a file,
\* and an automatic plan.
FormsLancarMin(nomes) ==
    {FormUnico(n, "x", g, 1, Ordinal(<<2024, 1, 31>>)) :
        n \in nomes, g \in BOOLEAN}
    \cup {FormAuto(n, "", FALSE, 1, Ordinal(<<2024, 1, 31>>), 2, Mensal, DiasPadrao, TRUE) :
            n \in nomes}

FormsCadastroMin ==
    [nome : {"", "Ana", "Bia"}, documento : {""}, email : {"a@b"}, telefone : {""}]

Acoes == {Pago, BaixadoCancelado}

(***************************************************************************)
(* SpecEditar: an issue submit, then one submit of the edit page over      *)
(* every form, from a backend that holds customers.                        *)
(***************************************************************************)
InitEditar ==
    /\ FERIADOS_BR = FeriadosBrasil
    /\ plano = <<>> /\ vencs = <<>>
    /\ clientes \in TabelasClientes
    /\ cobrancas = <<>> /\ bucket = {}
    /\ agora = MaxAgora - 2
    /\ ult = SemSubmit /\ baixados = {}
    /\ df_cobrancas = <<>> /\ df_clientes = <<>> /\ df_saldo = NULL
    /\ SemCarga /\ SemLaco

NextEditar ==
    /\ agora < MaxAgora
    /\ \/ \E f \in FormsLancarMin(Nomes(clientes)) : LancarCobranca(f, 0)
       \/ \E id_boleto \in Ids(cobrancas) :
            \E f \in FormsEditar(PorId(cobrancas, id_boleto)) :
               \E falha \in 0 .. 2 : EditarCobranca(id_boleto, f, falha)

SpecEditar == InitEditar /\ [][NextEditar]_vars

\* The invoice row an edit submit addressed, before and after it.
AntesDe(id) == PorId(cobrancas, id)
DepoisDe(id) == PorId(cobrancas', id)

UrlEditada(id) == Some(get_public_url([id |-> id, tipo |-> "edit", em |-> agora]))

OutrasIguais(id) ==
    /\ Len(cobrancas') = Len(cobrancas)
    /\ \A k \in DOMAIN cobrancas : cobrancas[k].id # id => cobrancas'[k] = cobrancas[k]

CamposDoForm(d, f) ==
    /\ d.valor = f.novo_valor
    /\ d.vencimento = Date(f.novo_vencimento)
    /\ d.status = f.novo_status
    /\ d.descricao = (IF f.nova_desc.parcela = <<>> /\ f.nova_desc.texto \in {"", " "}
                      THEN <<>> ELSE <<f.nova_desc>>)
    /\ d.cliente_id \in IdsComNome(clientes, f.novo_cliente_nome)

\* C4: a successful edit submit leaves the invoice's arquivo_url unchanged
\* when no new file is supplied and overwrites it with the public URL of the
\* uploaded file when one is supplied; in both cases amount, due date,
\* status, description (a blank one as NULL) and customer (a customer
\* carrying the chosen name) are overwritten with the form values, and every
\* other invoice is left alone.
C4_EditarAnexo ==
    [][(ult'.pagina = "editar" /\ agora' = agora + 1 /\ ult'.msg = "success") =>
          /\ IF ult'.form.arquivo
             THEN /\ DepoisDe(ult'.id).arquivo_url = UrlEditada(ult'.id)
                  /\ UrlEditada(ult'.id)[1].url \in bucket'
             ELSE /\ DepoisDe(ult'.id).arquivo_url = AntesDe(ult'.id).arquivo_url
                  /\ bucket' = bucket
          /\ CamposDoForm(DepoisDe(ult'.id), ult'.form)
          /\ DepoisDe(ult'.id).data_pagamento = AntesDe(ult'.id).data_pagamento
          /\ OutrasIguais(ult'.id)]_vars

\* An edit without a new file went through on an invoice that carries an
\* attachment from its issue, changing its status; and the invoice still
\* carries that attachment.
C4_Witness ==
    /\ ult.pagina = "editar" /\ ult.msg = "success" /\ ~ult.form.arquivo
    /\ ult.form.novo_status = "baixado"
    /\ PorId(cobrancas, ult.id).arquivo_url # NULL
    /\ PorId(cobrancas, ult.id).arquivo_url[1].url.tipo = "global"
    /\ PorId(cobrancas, ult.id).status = "baixado"

(***************************************************************************)
(* Spec: the four pages submitted in any order, from an empty backend.     *)
(***************************************************************************)
Init ==
    /\ FERIADOS_BR \in FeriadosPossiveis
    /\ plano = <<>> /\ vencs = <<>>
    /\ clientes = <<>> /\ cobrancas = <<>> /\ bucket = {}
    /\ agora = 0
    /\ ult = SemSubmit /\ baixados = {}
    /\ df_cobrancas = <<>> /\ df_clientes = <<>> /\ df_saldo = NULL
    /\ SemCarga /\ SemLaco

Cadastrar == \E f \in FormsCadastroMin : \E falha \in {0, 1} : CadastrarCliente(f, falha)

Lancar ==
    \E f \in FormsLancarMin(Nomes(clientes)) : \E falha \in Falhas(f) : LancarCobranca(f, falha)

Editar ==
    \E id_boleto \in Ids(cobrancas) :
        \E f \in FormsEditarMin(PorId(cobrancas, id_boleto)) :
            \E falha \in 0 .. 2 : EditarCobranca(id_boleto, f, falha)

Baixar ==
    \E cobranca_id \in df_abertos :
        \E acao \in Acoes : \E falhas \in 0 .. 2 : BaixarBoleto(cobranca_id, acao, falhas)

Next ==
    /\ agora < MaxAgora
    /\ (Cadastrar \/ Lancar \/ Editar \/ Baixar)

Spec == Init /\ [][Next]_vars

\* C1 (as the code has it): when the settle submit reports success for a
\* pending invoice with action 'Pago', the stored invoice has status 'pago';
\* its data_pagamento is the submit's timestamp when the first update call
\* went through, and is left as it was (NULL on an invoice never settled
\* before) when the first call failed and the status-only retry went through.
C1_BaixaPago ==
    [][(ult'.pagina = "baixar" /\ agora' = agora + 1
            /\ ult'.msg = "success" /\ ult'.acao = "Pago") =>
          /\ DepoisDe(ult'.id).status = "pago"
          /\ ult'.falhas = 0 => DepoisDe(ult'.id).data_pagamento = <<agora>>
          /\ ult'.falhas # 0 =>
                DepoisDe(ult'.id).data_pagamento = AntesDe(ult'.id).data_pagamento
          /\ OutrasIguais(ult'.id)]_vars

\* C1 as claimed: after a settle submit that reported success with action
\* 'Pago', the invoice has status 'pago' and a non-null data_pagamento,
\* whatever the outcome of the update calls.
C1_Original ==
    (ult.pagina = "baixar" /\ ult.msg = "success" /\ ult.acao = "Pago") =>
        /\ PorId(cobrancas, ult.id).status = "pago"
        /\ PorId(cobrancas, ult.id).data_pagamento # NULL

\* The first update failed, the retry went through: paid, without timestamp.
C1_Witness ==
    /\ ult.pagina = "baixar" /\ ult.msg = "success" /\ ult.acao = "Pago"
    /\ ult.falhas = 1
    /\ PorId(cobrancas, ult.id).status = "pago"
    /\ PorId(cobrancas, ult.id).data_pagamento = NULL

\* C2 (as the code has it): an invoice the settlement page has settled
\* leaves the pending list with that submit, and comes back onto the list
\* only by a successful edit submit of that invoice with status 'pendente';
\* register, issue, settle and every other edit keep it off the list.
C2_SoEdicaoReabre ==
    [][/\ (ult'.pagina = "baixar" /\ agora' = agora + 1 /\ ult'.msg = "success") =>
             (ult'.id \in baixados' /\ ult'.id \notin df_abertos')
       /\ \A id \in baixados :
             (id \notin df_abertos /\ id \in df_abertos') =>
                /\ ult'.pagina = "editar" /\ ult'.msg = "success"
                /\ ult'.id = id
                /\ ult'.form.novo_status = "pendente"]_vars

\* C2 as claimed: an invoice settled by the settlement page is never again
\* in the pending list.
C2_Original == \A id \in baixados : id \notin df_abertos

\* A settled invoice was edited afterwards, with a status other than
\* 'pendente', and is still off the pending list.
C2_Witness ==
    /\ ult.pagina = "editar" /\ ult.msg = "success"
    /\ ult.id \in baixados
    /\ ult.form.novo_status = "baixado"
    /\ PorId(cobrancas, ult.id).data_pagamento # NULL
    /\ ult.id \notin df_abertos

(***************************************************************************)
(* Two sessions on the settlement page.  A run of the page reads the       *)
(* table (lines 570-581) and, on submit, writes (lines 623-639); another   *)
(* session's submit may come between the two.                              *)
(***************************************************************************)
\* Mutant: the run keeps every row it read, pending or not.
LinhasAbertas_SemFiltro == {cobrancas[k] : k \in DOMAIN cobrancas}

\* df_abertos as a run reads it: the rows with status 'pendente'.
LinhasAbertas ==
    {cobrancas[k] : k \in {j \in DOMAIN cobrancas : cobrancas[j].status = "pendente"}}

CarregarBaixa(u) ==
    /\ cobrancas # <<>>
    /\ LinhasAbertas # {}
    /\ carregados' = [carregados EXCEPT ![u] = Some(LinhasAbertas)]
    /\ UNCHANGED <<FERIADOS_BR, varsAgenda, varsSaldo, varsLaco, clientes, cobrancas,
                   bucket, agora, ult, baixados>>

\* The submit of a run that read its rows earlier: the update is by id alone.
ConfirmarBaixa(u, cobranca_id, acao, falhas) ==
    /\ agora < MaxAgora
    /\ carregados[u] # NULL
    /\ cobranca_id \in {r.id : r \in carregados[u][1]}
    /\ agora' = agora + 1
    /\ cobrancas' = CobrancasAposBaixa(cobranca_id, acao, falhas)
    /\ baixados' = BaixadosApos(cobranca_id, falhas)
    /\ ult' = [pagina |-> "baixar", msg |-> IF falhas < 2 THEN "success" ELSE "error",
               id |-> cobranca_id, acao |-> acao, falhas |-> falhas,
               updates |-> IF falhas = 0 THEN 1 ELSE 2,
               usuario |-> u, status_antes |-> PorId(cobrancas, cobranca_id).status]
    /\ carregados' = [carregados EXCEPT ![u] = NULL]
    /\ UNCHANGED <<FERIADOS_BR, varsAgenda, varsSaldo, varsLaco, clientes, bucket>>

(***************************************************************************)
(* SpecConcorrente: an issue submit, then two sessions settling and        *)
(* editing, from a backend that holds customers.                           *)
(***************************************************************************)
InitConcorrente ==
    /\ FERIADOS_BR = FeriadosBrasil
    /\ plano = <<>> /\ vencs = <<>>
    /\ clientes \in TabelasClientes
    /\ cobrancas = <<>> /\ bucket = {}
    /\ agora = MaxAgora - 3
    /\ ult = SemSubmit /\ baixados = {}
    /\ df_cobrancas = <<>> /\ df_clientes = <<>> /\ df_saldo = NULL
    /\ SemCarga /\ SemLaco

LancarUm == \E f \in FormsLancarMin(Nomes(clientes)) : LancarCobranca(f, 0)

Carregar == \E u \in Usuarios : CarregarBaixa(u)

Confirmar ==
    \E u \in Usuarios : \E cobranca_id \in Ids(cobrancas) :
        \E acao \in Acoes : \E falhas \in 0 .. 2 : ConfirmarBaixa(u, cobranca_id, acao, falhas)

NextConcorrente ==
    /\ agora < MaxAgora
    /\ (LancarUm \/ Editar \/ Carregar \/ Confirmar)

SpecConcorrente == InitConcorrente /\ [][NextConcorrente]_vars

LidaPendente(u, id) ==
    /\ carregados[u] # NULL
    /\ \E r \in carregados[u][1] : r.id = id /\ r.status = "pendente"

\* C11 (as the code has it): a settlement write only ever goes to an invoice
\* that was 'pendente' when the writing session read the table, and it moves
\* that invoice to 'pago' or 'baixado' and touches no other invoice.  The
\* stored status at the moment of the write is 'pendente' when the stored row
\* is still the row that was read; the write is by id alone, so after
\* another session's settle or edit it overwrites whatever status is stored.
C11_BaixaPorLeitura ==
    [][(ult'.pagina = "baixar" /\ agora' = agora + 1) =>
          /\ LidaPendente(ult'.usuario, ult'.id)
          /\ ult'.msg = "success" => DepoisDe(ult'.id).status \in {"pago", "baixado"}
          /\ ult'.msg = "error" => cobrancas' = cobrancas
          /\ OutrasIguais(ult'.id)
          /\ AntesDe(ult'.id) \in carregados[ult'.usuario][1] =>
                AntesDe(ult'.id).status = "pendente"]_vars

\* C11 as claimed: the invoice a settlement write changes has the stored
\* status 'pendente' at the moment of the write, concurrent sessions included.
C11_Original ==
    (ult.pagina = "baixar" /\ ult.msg = "success") => ult.status_antes = "pendente"

\* Two sessions read the same pending invoice; one wrote 'baixado', then the
\* other wrote 'pago' over it.
C11_Witness ==
    /\ ult.pagina = "baixar" /\ ult.msg = "success"
    /\ ult.status_antes = "baixado"
    /\ ult.id \in baixados
    /\ PorId(cobrancas, ult.id).status = "pago"

\* What a failed issue submit leaves: nothing when the batch insert raised,
\* otherwise every inserted invoice, and the files uploaded before the failure.
RestoDoLancar ==
    IF ult'.falha = 1
    THEN cobrancas' = cobrancas /\ bucket' = bucket
    ELSE /\ Len(cobrancas') = Len(cobrancas) + ult'.form.qtd_parcelas
         /\ \A k \in DOMAIN cobrancas : cobrancas'[k] = cobrancas[k]
         /\ bucket \subseteq bucket'

\* What a failed edit submit leaves: the rows as they were, and the uploaded
\* file when it was the update that raised.
RestoDoEditar ==
    /\ cobrancas' = cobrancas
    /\ bucket' = (IF ult'.form.arquivo /\ ult'.falha = 2
                  THEN bucket \cup {[id |-> ult'.id, tipo |-> "edit", em |-> agora]}
                  ELSE bucket)

\* C12 (as the code has it): a backend call that fails inside a submit is
\* caught and the calls that went through before it are not undone.  The
\* register, issue and edit pages show an error for any failing call; the
\* settle page shows one only when both of its updates fail.  After an error
\* the customers are as before; the invoices and files are as before when the
\* submit's first call was the one that failed, but a failed upload or URL
\* update during issuance leaves every newly inserted invoice behind, and a
\* failed update during an edit leaves the uploaded file behind.
C12_SemRollback ==
    [][(agora' = agora + 1) =>
          /\ (ult'.pagina \in {"cadastrar", "lancar", "editar"} /\ ult'.falha # 0)
                => ult'.msg = "error"
          /\ (ult'.pagina = "baixar") => (ult'.msg = "error" <=> ult'.falhas = 2)
          /\ ult'.msg = "error" =>
                /\ clientes' = clientes
                /\ ult'.pagina = "cadastrar" => (cobrancas' = cobrancas /\ bucket' = bucket)
                /\ ult'.pagina = "lancar" => RestoDoLancar
                /\ ult'.pagina = "editar" => RestoDoEditar
                /\ ult'.pagina = "baixar" => (cobrancas' = cobrancas /\ bucket' = bucket)]_vars

\* C12 as claimed, for issuance: after an issue submit that showed an error
\* the invoice table is as it was before the submit.
C12_Original ==
    (ult.pagina = "lancar" /\ ult.msg = "error") => Len(cobrancas) = ult.antes

\* The upload of the global file failed after the batch insert: the error is
\* shown and the new invoice is in the table, without an attachment.
C12_Witness ==
    /\ ult.pagina = "lancar" /\ ult.msg = "error" /\ ult.falha = 2
    /\ ult.form.arquivo_global
    /\ Len(cobrancas) = ult.antes + 1
    /\ cobrancas[Len(cobrancas)].arquivo_url = NULL

\* C13: in every state reachable by issue, edit and settle submits, every
\* stored invoice has valor > 0.
C13_ValorPositivo == \A k \in DOMAIN cobrancas : cobrancas[k].valor > 0

\* An edit submit with amount 0 went through and the invoice now holds it.
C13_Witness ==
    /\ ult.pagina = "editar" /\ ult.msg = "success"
    /\ ult.form.novo_valor = 0
    /\ PorId(cobrancas, ult.id).valor = 0

StatusEscolhido == IF ult'.acao = "Pago" THEN "pago" ELSE "baixado"

\* C14: in the settle submit, when the first update (status and
\* data_pagamento) fails, exactly one more update is attempted, carrying the
\* status alone; if it goes through the invoice has the chosen status and
\* every other field, data_pagamento included, is as before; if it fails too
\* the invoice table is as before and an error is shown.  A settle submit
\* changes no field but status and data_pagamento, and no other invoice.
C14_Reserva ==
    [][(ult'.pagina = "baixar" /\ agora' = agora + 1) =>
          /\ ult'.updates = (IF ult'.falhas = 0 THEN 1 ELSE 2)
          /\ ult'.falhas = 0 =>
                /\ ult'.msg = "success"
                /\ DepoisDe(ult'.id) = [AntesDe(ult'.id) EXCEPT !.status = StatusEscolhido,
                                                               !.data_pagamento = <<agora>>]
          /\ ult'.falhas = 1 =>
                /\ ult'.msg = "success"
                /\ DepoisDe(ult'.id) = [AntesDe(ult'.id) EXCEPT !.status = StatusEscolhido]
          /\ ult'.falhas = 2 => (ult'.msg = "error" /\ cobrancas' = cobrancas)
          /\ OutrasIguais(ult'.id)
          /\ clientes' = clientes /\ bucket' = bucket]_vars

\* The first update failed and the retry went through on an invoice that
\* already carried a payment timestamp: the status changed, the timestamp
\* is the old one.
C14_Witness ==
    /\ ult.pagina = "baixar" /\ ult.msg = "success" /\ ult.falhas = 1
    /\ ult.acao = "Pago" /\ ult.status_antes = "baixado"
    /\ PorId(cobrancas, ult.id).status = "pago"
    /\ PorId(cobrancas, ult.id).data_pagamento # NULL
    /\ PorId(cobrancas, ult.id).data_pagamento # <<agora - 1>>

(***************************************************************************)
(* SpecLaco: ajustar_dia_util step by step, one iteration of its while     *)
(* loop per step, on every date of the window.                             *)
(***************************************************************************)
\* Mutant: the loop condition sees Saturdays only.
CondicaoDoLaco_SoSabado(ts) == Weekday(ts) = 5

\* The while condition of line 47.
CondicaoDoLaco(ts) == Weekday(ts) >= 5 \/ Date(ts) \in FERIADOS_BR

InitLaco ==
    /\ FERIADOS_BR \in FeriadosPossiveis
    /\ plano = <<>> /\ vencs = <<>>
    /\ clientes = <<>> /\ cobrancas = <<>> /\ bucket = {}
    /\ agora = 0 /\ ult = SemSubmit /\ baixados = {}
    /\ df_cobrancas = <<>> /\ df_clientes = <<>> /\ df_saldo = NULL
    /\ SemCarga
    /\ laco_entrada \in DatasBase
    /\ laco_ts = laco_entrada
    /\ pc = "while"

\* Line 48: data_ts += pd.Timedelta(days=1)
Avancar ==
    /\ pc = "while"
    /\ CondicaoDoLaco(laco_ts)
    /\ laco_ts' = Timedelta(laco_ts, 1)
    /\ UNCHANGED <<FERIADOS_BR, varsAgenda, varsSaldo, carregados, clientes, cobrancas,
                   bucket, agora, ult, baixados, laco_entrada, pc>>

\* Line 49: return data_ts
Retornar ==
    /\ pc = "while"
    /\ ~CondicaoDoLaco(laco_ts)
    /\ pc' = "return"
    /\ UNCHANGED <<FERIADOS_BR, varsAgenda, varsSaldo, carregados, clientes, cobrancas,
                   bucket, agora, ult, baixados, laco_entrada, laco_ts>>

NextLaco == Avancar \/ Retornar

\* The interpreter keeps running the loop: a step that can be taken is taken.
SpecLaco == InitLaco /\ [][NextLaco]_vars /\ WF_vars(NextLaco)

DiaUtil(n) == Weekday(n) < 5 /\ Date(n) \notin FERIADOS_BR

\* C15: ajustar_dia_util terminates on every input date; it returns the
\* first day, from the input on, that is neither a Saturday or Sunday nor a
\* holiday, and with an empty holiday list that day is at most 2 days after
\* the input.
C15_Termina ==
    /\ <>(pc = "return")
    /\ [](pc = "return" =>
            /\ laco_ts >= laco_entrada
            /\ DiaUtil(laco_ts)
            /\ \A n \in laco_entrada .. (laco_ts - 1) : ~DiaUtil(n)
            /\ laco_ts = ajustar_dia_util(laco_entrada)
            /\ FERIADOS_BR = {} => laco_ts - laco_entrada <= 2)

\* The loop returned three days after a holiday Friday.
C15_Witness ==
    /\ pc = "return"
    /\ Date(laco_entrada) \in FERIADOS_BR /\ Weekday(laco_entrada) = 4
    /\ laco_ts = laco_entrada + 3

\* The customer select box was left on the name the page opened it with.
ClienteNaoMexido ==
    ult'.form.novo_cliente_nome = FormPadraoEditar(AntesDe(ult'.id)).novo_cliente_nome

\* C16: an edit submit that leaves the customer selection as the page opened
\* it leaves the invoice's cliente_id unchanged, for every customer table,
\* tables where two customers share a name included.
C16_ClienteMantido ==
    [][(ult'.pagina = "editar" /\ agora' = agora + 1 /\ ult'.msg = "success"
            /\ ClienteNaoMexido) =>
          DepoisDe(ult'.id).cliente_id = AntesDe(ult'.id).cliente_id]_vars

\* Every customer is called "Ana"; the two installments of one issue submit,
\* which had the same owner, have different owners after an edit of one.
C16_Witness ==
    /\ ult.pagina = "editar" /\ ult.msg = "success"
    /\ Nomes(clientes) = {"Ana"} /\ Len(clientes) = 2
    /\ Len(cobrancas) = 2
    /\ cobrancas[1].created_at = cobrancas[2].created_at
    /\ cobrancas[1].cliente_id # cobrancas[2].cliente_id

====
